---- MODULE Spec2Model ----
(***************************************************************************)
(* Model of the BigQuery helper layer of m-lab/go: the query builders      *)
(* (ResultQuery, DestinationQuery), the single-row executor                *)
(* (TableUtil.QueryAndParse with parseModel) and the Dedup workflow.       *)
(*                                                                         *)
(* Texts (query strings, table names) are sequences of one-character       *)
(* strings, so that strings.HasPrefix and strings.Contains are computed    *)
(* on the characters.                                                      *)
(***************************************************************************)
EXTENDS Integers, Sequences, FiniteSets, TLC

VARIABLES
    op,       \* the operation the caller issued last ("none" after construction)
    built,    \* the last ResultQuery / DestinationQuery call and its descriptor
    qp,       \* the last QueryAndParse call: arguments, cursor and outcome
    dd,       \* the Dedup call: position, arguments, result, event log
    job,      \* the remote side of the Dedup call: submitted descriptors, job state
    gp,       \* the last GetPartitionInfo call: arguments, service and result
    pm,       \* the last parseModel call: row, template and result
    alt,      \* the last AltQueryAndParse call: target before and after, cursor, error
    ct        \* a CountingTransport and the goroutines calling RoundTrip on it

vars == <<op, built, qp, dd, job, gp, pm, alt, ct>>

(***************************** bounds ***************************************)
MaxPad == 1        \* leading blanks put in front of a query text
MaxNameLen == 2    \* length of a destination table name
MaxFields == 2     \* fields of a target struct
MaxRows == 2       \* rows a cursor yields before its terminal signal
MaxPartitions == 2 \* partitions of the table GetPartitionInfo asks about
MaxCalls == 3      \* goroutines calling RoundTrip on one CountingTransport

(***************************** texts ****************************************)
LegacyMarker == <<"#", "l", "e", "g", "a", "c", "y", "S", "Q", "L">>

\* strings.HasPrefix(s, prefix)
HasPrefix(s, prefix) ==
    /\ Len(s) >= Len(prefix)
    /\ SubSeq(s, 1, Len(prefix)) = prefix

\* strings.Contains(s, c) for a one-character c
Contains(s, c) == \E i \in 1..Len(s) : s[i] = c

Pad(n) == [i \in 1..n |-> " "]

Heads ==
    { LegacyMarker,
      SubSeq(LegacyMarker, 1, 9),
      <<"#", "L", "E", "G", "A", "C", "Y", "S", "Q", "L">>,
      <<"#", "s", "t", "a", "n", "d", "a", "r", "d", "S", "Q", "L">>,
      <<"S", "E", "L", "E", "C", "T">>,
      <<>> }

Tails == { <<>>, <<"\n", "1">>, LegacyMarker }

QueryTexts == { Pad(n) \o h \o t : n \in 0..MaxPad, h \in Heads, t \in Tails }

NameChars == {"t", "$"}

RECURSIVE TextsUpTo(_, _)
TextsUpTo(chars, n) ==
    IF n = 0 THEN { <<>> }
    ELSE LET shorter == TextsUpTo(chars, n - 1)
         IN  shorter \cup { Append(s, c) : s \in shorter, c \in chars }

TableNames == TextsUpTo(NameChars, MaxNameLen)

(***************************** descriptors **********************************)
\* The receiver's Dataset: default project and dataset of every query.
dsExt == [ProjectID |-> "mlab-testing", DatasetID |-> "go"]

\* A *bigquery.Table is <<>> when nil, <<t>> otherwise.
NoTable == <<>>
Table(project, dataset, table) ==
    << [ProjectID |-> project, DatasetID |-> dataset, TableID |-> table] >>

\* BqClient.Query(query): a Query whose QueryConfig holds the text and zero values.
Query(query) ==
    [ Q                       |-> query,
      DryRun                  |-> FALSE,
      UseLegacySQL            |-> FALSE,
      DefaultProjectID        |-> "",
      DefaultDatasetID        |-> "",
      Dst                     |-> NoTable,
      WriteDisposition        |-> "",
      AllowLargeResults       |-> FALSE,
      DisableFlattenedResults |-> FALSE ]

ResultQueryAnywhere(query, dryRun) ==
    [ Query(query) EXCEPT
        !.DryRun = dryRun,
        !.UseLegacySQL = \E i \in 0..Len(query) :
                            HasPrefix(SubSeq(query, i + 1, Len(query)), LegacyMarker),
        !.DefaultProjectID = dsExt.ProjectID,
        !.DefaultDatasetID = dsExt.DatasetID ]

ResultQuery(query, dryRun) ==
    [ Query(query) EXCEPT
        !.DryRun = dryRun,
        !.UseLegacySQL = HasPrefix(query, LegacyMarker),
        !.DefaultProjectID = dsExt.ProjectID,
        !.DefaultDatasetID = dsExt.DatasetID ]

DestinationQueryNoDryRun(query, dest) ==
    [ Query(query) EXCEPT
        !.Dst = dest,
        !.AllowLargeResults = TRUE,
        !.DefaultProjectID = dsExt.ProjectID,
        !.DefaultDatasetID = dsExt.DatasetID,
        !.DisableFlattenedResults = TRUE ]

DestinationQuery(query, dest) ==
    [ Query(query) EXCEPT
        !.Dst = IF dest # NoTable THEN dest ELSE NoTable,
        !.DryRun = (dest = NoTable),
        !.AllowLargeResults = TRUE,
        !.DefaultProjectID = dsExt.ProjectID,
        !.DefaultDatasetID = dsExt.DatasetID,
        !.DisableFlattenedResults = TRUE ]

(***************************** rows and targets *****************************)
\* A bigquery.Value with its dynamic type; Nil is a NULL column.
IntVal(n) == [t |-> "int", v |-> n]
StrVal(n) == [t |-> "str", v |-> n]
Nil == [t |-> "nil", v |-> 0]

Types == {"int", "str"}
Tags == {"a", "b"}

\* The Go zero value of a field of type typ, and a non-zero value a caller
\* may have put there before the call.
Zero(typ) == [t |-> typ, v |-> 0]
Prior(typ) == [t |-> typ, v |-> 7]

\* A row is map[string]bigquery.Value: a function from some column names.
RowsOver(cols, vals) == UNION { [D -> vals] : D \in SUBSET cols }
Rows ==
    { a @@ b : a \in RowsOver({"a"}, {IntVal(1), StrVal(1), Nil}),
               b \in RowsOver({"A"}, {IntVal(2)}) }

\* A struct value is the sequence of its fields: qfield tag, declared type, value.
FieldValues ==
    { [tag |-> g, typ |-> ty, val |-> v] :
        g \in Tags, ty \in Types, v \in {Zero("int"), Zero("str"), Prior("int"), Prior("str")} }
Fields == { f \in FieldValues : f.val.t = f.typ }
Models == TextsUpTo(Fields, MaxFields)

\* reflect.New(typeOfModel): a fresh instance with every field at its zero value.
New(model) == [i \in 1..Len(model) |-> [model[i] EXCEPT !.val = Zero(model[i].typ)]]

\* reflect.Value.Set panics unless the value is assignable to the field's type;
\* reflect.ValueOf(nil) is the zero Value, which Set rejects too.
Assignable(v, typ) == v.t = typ

\* The loop of parseModel from field i on; elem is the instance built so far.
RECURSIVE parseFields(_, _, _)
parseFields(row, elem, i) ==
    IF i > Len(elem) THEN [panic |-> FALSE, val |-> elem, err |-> "nil"]
    ELSE IF elem[i].tag \in DOMAIN row
         THEN IF Assignable(row[elem[i].tag], elem[i].typ)
              THEN parseFields(row, [elem EXCEPT ![i].val = row[elem[i].tag]], i + 1)
              ELSE [panic |-> TRUE, val |-> elem, err |-> "nil"]
         ELSE parseFields(row, elem, i + 1)

parseModelInPlace(row, model) == parseFields(row, model, 1)

parseModel(row, model) == parseFields(row, New(model), 1)

(***************************** cursors **************************************)
\* What query.Read and the RowIterator do: Read fails, or the iterator yields
\* rows and then its terminal signal, iterator.Done or a hard error.
ErrNil == "nil"
ErrDone == "iterator.Done: no more items in iterator"
ErrHard == "cursor: hard error"
ErrRead == "query.Read: error"
ErrMultiple == "multiple row data"

RowSeqs == TextsUpTo(Rows, MaxRows)
Cursors ==
    { [readErr |-> TRUE, rows |-> <<>>, end |-> ErrDone] }
    \cup { [readErr |-> FALSE, rows |-> r, end |-> e] : r \in RowSeqs, e \in {ErrDone, ErrHard} }

\* it.Next(&row), the n-th call on the iterator
ItNext(cur, n) ==
    IF n <= Len(cur.rows)
    THEN [err |-> ErrNil, row |-> cur.rows[n]]
    ELSE [err |-> cur.end, row |-> <<>>]

(***************************** QueryAndParse ********************************)
\* The outcome of one call: how it ended, the returned value and error, the
\* descriptor it ran, how often the query was executed, how many times the
\* iterator was asked for a row and how many rows it handed over.
Outcome(kind, val, err, query, nexts, rows) ==
    [ kind |-> kind, val |-> val, err |-> err, query |-> query,
      execs |-> 1, nexts |-> nexts, rowsRead |-> rows ]

QueryAndParseNoRowsAsMultiple(q, model, cur) ==
    LET query == ResultQuery(q, FALSE)
        first == ItNext(cur, 1)
        parsed == parseModel(first.row, model)
        second == ItNext(cur, 2)
    IN  IF cur.readErr THEN Outcome("return", model, ErrRead, query, 0, 0)
        ELSE IF first.err # ErrNil THEN Outcome("return", model, ErrMultiple, query, 1, 0)
        ELSE IF parsed.panic THEN Outcome("panic", model, ErrNil, query, 1, 1)
        ELSE IF parsed.err # ErrNil THEN Outcome("return", model, parsed.err, query, 1, 1)
        ELSE IF second.err # ErrDone
             THEN Outcome("return", model, ErrMultiple, query, 2,
                          IF second.err = ErrNil THEN 2 ELSE 1)
        ELSE Outcome("return", parsed.val, ErrNil, query, 2, 1)

QueryAndParse(q, model, cur) ==
    LET query == ResultQuery(q, FALSE)
        first == ItNext(cur, 1)
        parsed == parseModel(first.row, model)
        second == ItNext(cur, 2)
    IN  IF cur.readErr THEN Outcome("return", model, ErrRead, query, 0, 0)
        ELSE IF first.err # ErrNil THEN Outcome("return", model, first.err, query, 1, 0)
        ELSE IF parsed.panic THEN Outcome("panic", model, ErrNil, query, 1, 1)
        ELSE IF parsed.err # ErrNil THEN Outcome("return", model, parsed.err, query, 1, 1)
        ELSE IF second.err # ErrDone
             THEN Outcome("return", model, ErrMultiple, query, 2,
                          IF second.err = ErrNil THEN 2 ELSE 1)
        ELSE Outcome("return", parsed.val, ErrNil, query, 2, 1)

(***************************** Dedup ****************************************)
Srcs == { <<"s", "r", "c">>, <<"t", "$">> }
DedupOns == { <<"i", "d">> }
Projects == {"p1", "p2"}
Datasets == {"d1"}

\* fmt.Sprintf(dedupTemplate, dedupOn, src): the two %s of the template replaced.
dedupTemplate(dedupOn, src) ==
    <<"\n", "\t", "#", "s", "t", "a", "n", "d", "a", "r", "d", "S", "Q", "L", "\n",
      "SELECT ... ROW_NUMBER() OVER (PARTITION BY ">>
    \o dedupOn \o <<") row_number FROM ">> \o src \o <<") WHERE row_number = 1">>

WriteTruncate == "WRITE_TRUNCATE"

ErrNoPartition == "Destination table does not specify partition"
ErrRun == "q.Run: error"
ErrWait == "job.Wait: error"

\* A *bigquery.JobStatus: nil, or the terminal state with the job's own error.
NilStatus == [isNil |-> TRUE, State |-> "", Err |-> ErrNil]
JobStatus(err) == [isNil |-> FALSE, State |-> "Done", Err |-> err]
ErrJob == "job: terminal failure"

NoJob == [runs |-> 0, submitted |-> <<>>, state |-> "none"]
Terminal == {"done_ok", "done_failed"}

IdleDedup ==
    [ pc |-> "idle", src |-> <<>>, dedupOn |-> <<>>, overwrite |-> FALSE,
      project |-> "", dataset |-> "", table |-> <<>>,
      status |-> NilStatus, err |-> ErrNil, events |-> <<>> ]

DedupArgs(src, dedupOn, overwrite, project, dataset, table) ==
    [ IdleDedup EXCEPT !.src = src, !.dedupOn = dedupOn, !.overwrite = overwrite,
                       !.project = project, !.dataset = dataset, !.table = table ]

\* The descriptor Dedup hands to q.Run.
DedupQueryAlwaysTruncate(src, dedupOn, overwrite, project, dataset, table) ==
    [ DestinationQuery(dedupTemplate(dedupOn, src), Table(project, dataset, table))
        EXCEPT !.WriteDisposition = WriteTruncate ]

DedupQuery(src, dedupOn, overwrite, project, dataset, table) ==
    LET q == DestinationQuery(dedupTemplate(dedupOn, src), Table(project, dataset, table))
    IN  IF overwrite THEN [q EXCEPT !.WriteDisposition = WriteTruncate] ELSE q

\* job.Wait of cloud.google.com/go/bigquery: an error while retrieving the
\* status is returned with a nil status; once the job is done its status is
\* returned with a nil error, also when the job itself failed (the job's own
\* error is status.Err()). Until then the call blocks (ready is FALSE).
JobWait(j, waitOK) ==
    IF ~waitOK THEN [ready |-> TRUE, status |-> NilStatus, err |-> ErrWait]
    ELSE IF j.state \in Terminal
         THEN [ready |-> TRUE,
               status |-> JobStatus(IF j.state = "done_failed" THEN ErrJob ELSE ErrNil),
               err |-> ErrNil]
         ELSE [ready |-> FALSE, status |-> NilStatus, err |-> ErrNil]

\* Dedup from its entry to the point where it returns or blocks in job.Wait:
\* the partition check, the descriptor, q.Run. runOK is whether q.Run succeeds.
DedupBeginNoCheck(src, dedupOn, overwrite, project, dataset, table, runOK) ==
    LET args == DedupArgs(src, dedupOn, overwrite, project, dataset, table)
        desc == DedupQuery(src, dedupOn, overwrite, project, dataset, table)
    IN  IF runOK
        THEN [ dd |-> [args EXCEPT !.pc = "waiting",
                                   !.events = <<"check", "build", "submit", "wait">>],
               job |-> [runs |-> 1, submitted |-> <<desc>>, state |-> "running"] ]
        ELSE [ dd |-> [args EXCEPT !.pc = "returned", !.err = ErrRun,
                                   !.events = <<"check", "build", "submit", "return">>],
               job |-> [runs |-> 1, submitted |-> <<desc>>, state |-> "none"] ]

DedupBeginRetry(src, dedupOn, overwrite, project, dataset, table, runOK) ==
    LET args == DedupArgs(src, dedupOn, overwrite, project, dataset, table)
        desc == DedupQuery(src, dedupOn, overwrite, project, dataset, table)
    IN  IF ~Contains(table, "$")
        THEN [ dd |-> [args EXCEPT !.pc = "returned", !.err = ErrNoPartition,
                                   !.events = <<"check", "return">>],
               job |-> NoJob ]
        ELSE IF runOK
        THEN [ dd |-> [args EXCEPT !.pc = "waiting",
                                   !.events = <<"check", "build", "submit", "wait">>],
               job |-> [runs |-> 1, submitted |-> <<desc>>, state |-> "running"] ]
        ELSE [ dd |-> [args EXCEPT !.pc = "waiting",
                                   !.events = <<"check", "build", "submit", "submit", "wait">>],
               job |-> [runs |-> 2, submitted |-> <<desc, desc>>, state |-> "running"] ]

DedupBegin(src, dedupOn, overwrite, project, dataset, table, runOK) ==
    LET args == DedupArgs(src, dedupOn, overwrite, project, dataset, table)
        desc == DedupQuery(src, dedupOn, overwrite, project, dataset, table)
    IN  IF ~Contains(table, "$")
        THEN [ dd |-> [args EXCEPT !.pc = "returned", !.err = ErrNoPartition,
                                   !.events = <<"check", "return">>],
               job |-> NoJob ]
        ELSE IF runOK
        THEN [ dd |-> [args EXCEPT !.pc = "waiting",
                                   !.events = <<"check", "build", "submit", "wait">>],
               job |-> [runs |-> 1, submitted |-> <<desc>>, state |-> "running"] ]
        ELSE [ dd |-> [args EXCEPT !.pc = "returned", !.err = ErrRun,
                                   !.events = <<"check", "build", "submit", "return">>],
               job |-> [runs |-> 1, submitted |-> <<desc>>, state |-> "none"] ]

\* Dedup after job.Wait has returned w: both of Wait's results are passed on.
DedupEnd(d, w) ==
    [ d EXCEPT !.pc = "returned", !.status = w.status, !.err = w.err,
               !.events = Append(@, "return") ]


(***************************** decoding into a struct ***********************)
\* RowIterator.Next(dst) with dst a pointer to a struct (cloud.google.com/go/
\* bigquery): a column is matched to the field of the same name, ignoring
\* case; unmatched columns and fields are ignored; a column whose type the
\* field cannot hold, or a NULL, makes Next return an error. A field is
\* written in place, so fields with no column keep what they held.
\* The tag component of a field is the name a column is bound to: the qfield
\* tag for parseModel, the field's name here.
Lower(c) == IF c = "A" THEN "a" ELSE c

ErrLoad == "bigquery: schema field cannot be loaded into struct field"

ColumnsOf(row, name) == { c \in DOMAIN row : Lower(c) = Lower(name) }

RECURSIVE StructLoad(_, _, _)
StructLoad(row, target, i) ==
    IF i > Len(target) THEN [err |-> ErrNil, val |-> target]
    ELSE LET cols == ColumnsOf(row, target[i].tag)
         IN  IF cols = {} THEN StructLoad(row, target, i + 1)
             ELSE LET c == CHOOSE x \in cols : TRUE
                  IN  IF Assignable(row[c], target[i].typ)
                      THEN StructLoad(row, [target EXCEPT ![i].val = row[c]], i + 1)
                      ELSE [err |-> ErrLoad, val |-> target]

\* it.Next(structPtr), the n-th call on the iterator: the error and what the
\* struct behind the pointer holds afterwards.
ItNextStruct(cur, n, target) ==
    IF n <= Len(cur.rows)
    THEN StructLoad(cur.rows[n], target, 1)
    ELSE [err |-> cur.end, val |-> target]

ErrNotPtr == "Argument should be ptr to struct"

\* A pointer to a struct, as reflect sees the argument.
PtrTo(val) == [kind |-> "ptr", elem |-> "struct", val |-> val]

\* Dataset.QueryAndParse: the error it returns and what the struct behind
\* structPtr holds when it returns.
DatasetQueryAndParse(q, structPtr, cur) ==
    LET query == ResultQuery(q, FALSE)
        first == ItNextStruct(cur, 1, structPtr.val)
        second == ItNext(cur, 2)
    IN  IF structPtr.kind # "ptr" THEN [err |-> ErrNotPtr, val |-> structPtr.val, query |-> Query(<<>>)]
        ELSE IF structPtr.elem # "struct" THEN [err |-> ErrNotPtr, val |-> structPtr.val, query |-> Query(<<>>)]
        ELSE IF cur.readErr THEN [err |-> ErrRead, val |-> structPtr.val, query |-> query]
        ELSE IF first.err # ErrNil THEN [err |-> first.err, val |-> first.val, query |-> query]
        ELSE IF second.err # ErrDone THEN [err |-> ErrMultiple, val |-> first.val, query |-> query]
        ELSE [err |-> ErrNil, val |-> first.val, query |-> query]

(***************************** GetPartitionInfo *****************************)
\* Partition IDs are 1, 2, ...; StrVal(n) is the ID as the string column value,
\* and StrVal(0) is the empty string, the zero value.
TimeVal(n) == [t |-> "time", v |-> n]

\* PartitionInfo{}: the struct with its three fields at their zero values.
PartitionInfo ==
    << [tag |-> "PartitionID", typ |-> "str", val |-> Zero("str")],
       [tag |-> "CreationTime", typ |-> "time", val |-> Zero("time")],
       [tag |-> "LastModified", typ |-> "time", val |-> Zero("time")] >>

\* The table's partitions as the service holds them: distinct partition IDs,
\* each with its creation and last modification time in msec.
PartitionEntries ==
    { [partition_id |-> id, creation_time |-> 1, last_modified_time |-> m] :
        id \in 1..MaxPartitions, m \in 1..2 }
Summaries ==
    { s \in TextsUpTo(PartitionEntries, MaxPartitions) :
        \A i, j \in 1..Len(s) : (i # j) => s[i].partition_id # s[j].partition_id }

\* The query text of GetPartitionInfo: the format with table and partition put in.
partitionQuery(table, partition) ==
    LegacyMarker
    \o <<"\n", "SELECT partition_id as PartitionID, msec_to_timestamp(creation_time) AS CreationTime, msec_to_timestamp(last_modified_time) AS LastModified FROM [">>
    \o table \o <<"$__PARTITIONS_SUMMARY__] where partition_id = ", ToString(partition)>>

\* What the service answers to that query: one row per entry of the summary
\* whose partition_id is the one asked for, with the three columns of the SELECT.
SummaryRow(e) ==
    [ PartitionID  |-> StrVal(e.partition_id),
      CreationTime |-> TimeVal(e.creation_time),
      LastModified |-> TimeVal(e.last_modified_time) ]

RECURSIVE SelectPartition(_, _)
SelectPartition(summary, partition) ==
    IF summary = <<>> THEN <<>>
    ELSE LET rest == SelectPartition(Tail(summary), partition)
         IN  IF Head(summary).partition_id = partition
             THEN <<SummaryRow(Head(summary))>> \o rest
             ELSE rest

\* The service as GetPartitionInfo meets it: the summary, whether query.Read
\* fails, and the terminal signal of the cursor.
Services ==
    { [summary |-> s, readErr |-> r, end |-> e] :
        s \in Summaries, r \in BOOLEAN, e \in {ErrDone, ErrHard} }

PartitionCursor(svc, partition) ==
    [ readErr |-> svc.readErr,
      rows |-> SelectPartition(svc.summary, partition),
      end |-> svc.end ]

GetPartitionInfoDirty(table, partition, svc) ==
    LET queryString == partitionQuery(table, partition)
        r == DatasetQueryAndParse(queryString, PtrTo(PartitionInfo),
                                  PartitionCursor(svc, partition))
    IN  [pi |-> r.val, err |-> ErrNil, query |-> r.query]

GetPartitionInfo(table, partition, svc) ==
    LET queryString == partitionQuery(table, partition)
        r == DatasetQueryAndParse(queryString, PtrTo(PartitionInfo),
                                  PartitionCursor(svc, partition))
    IN  IF r.err # ErrNil
        THEN [pi |-> PartitionInfo, err |-> r.err, query |-> r.query]
        ELSE [pi |-> r.val, err |-> ErrNil, query |-> r.query]


(***************************** AltQueryAndParse *****************************)
\* The rows a query hands to a struct: BigQuery column names are unique
\* ignoring case, so a row has "a" or "A", not both.
StructRows == { r \in Rows : Cardinality(DOMAIN r) <= 1 }
StructCursors ==
    { [readErr |-> TRUE, rows |-> <<>>, end |-> ErrDone] }
    \cup { [readErr |-> FALSE, rows |-> r, end |-> e] :
             r \in TextsUpTo(StructRows, MaxRows), e \in {ErrDone, ErrHard} }

AltQueryAndParseRestore(q, model, cur) ==
    LET query == ResultQuery(q, FALSE)
        first == ItNextStruct(cur, 1, model)
        second == ItNext(cur, 2)
    IN  IF cur.readErr THEN [err |-> ErrRead, val |-> model, query |-> query]
        ELSE IF first.err # ErrNil THEN [err |-> first.err, val |-> first.val, query |-> query]
        ELSE IF second.err # ErrDone THEN [err |-> ErrMultiple, val |-> model, query |-> query]
        ELSE [err |-> ErrNil, val |-> first.val, query |-> query]

\* AltQueryAndParse: model is the pointer to the caller's struct; the result
\* is the error and what that struct holds when the call returns (the pointer
\* itself is what the function returns).
AltQueryAndParse(q, model, cur) ==
    LET query == ResultQuery(q, FALSE)
        first == ItNextStruct(cur, 1, model)
        second == ItNext(cur, 2)
    IN  IF cur.readErr THEN [err |-> ErrRead, val |-> model, query |-> query]
        ELSE IF first.err # ErrNil THEN [err |-> first.err, val |-> first.val, query |-> query]
        ELSE IF second.err # ErrDone THEN [err |-> ErrMultiple, val |-> first.val, query |-> query]
        ELSE [err |-> ErrNil, val |-> first.val, query |-> query]

(***************************** state machine ********************************)
NoBuilt ==
    [ fn |-> "none", query |-> <<>>, dryRun |-> FALSE, dest |-> NoTable,
      desc |-> Query(<<>>) ]

NoOutcome ==
    [ kind |-> "none", val |-> <<>>, err |-> ErrNil, query |-> Query(<<>>),
      execs |-> 0, nexts |-> 0, rowsRead |-> 0 ]

NoCall ==
    [ q |-> <<>>, model |-> <<>>,
      cur |-> [readErr |-> FALSE, rows |-> <<>>, end |-> ErrDone],
      out |-> NoOutcome ]

\* The query texts handed to QueryAndParse.
ParseTexts == { LegacyMarker \o <<"\n", "1">>, <<"S", "E", "L", "E", "C", "T">> }

NoPartitionCall ==
    [ table |-> <<>>, partition |-> 0,
      svc |-> [summary |-> <<>>, readErr |-> FALSE, end |-> ErrDone],
      out |-> [pi |-> PartitionInfo, err |-> ErrNil, query |-> Query(<<>>)] ]

NoParse == [row |-> <<>>, model |-> <<>>, out |-> [panic |-> FALSE, val |-> <<>>, err |-> ErrNil]]

NoAlt ==
    [ q |-> <<>>, before |-> <<>>,
      cur |-> [readErr |-> FALSE, rows |-> <<>>, end |-> ErrDone],
      out |-> [err |-> ErrNil, val |-> <<>>, query |-> Query(<<>>)] ]

\* &CountingTransport{}: count 0, reqs nil; no goroutine has called RoundTrip.
NewTransport ==
    [ count |-> 0, reqs |-> <<>>, calls |-> 0,
      pc |-> [g \in 1..MaxCalls |-> "idle"],
      seen |-> [g \in 1..MaxCalls |-> <<>>],
      resp |-> [g \in 1..MaxCalls |-> 0] ]

Init ==
    /\ op = "none"
    /\ built = NoBuilt
    /\ qp = NoCall
    /\ dd = IdleDedup
    /\ job = NoJob
    /\ gp = NoPartitionCall
    /\ pm = NoParse
    /\ alt = NoAlt
    /\ ct = NewTransport

\* The caller is one thread: it issues a call when no call is in progress and
\* the records of the call before have been discarded.
CallerFree == op = "none"

CallResultQuery ==
    /\ CallerFree
    /\ \E query \in QueryTexts, dryRun \in BOOLEAN :
         built' = [ fn |-> "ResultQuery", query |-> query, dryRun |-> dryRun,
                    dest |-> NoTable, desc |-> ResultQuery(query, dryRun) ]
    /\ op' = "ResultQuery"
    /\ qp' = NoCall
    /\ dd' = IdleDedup
    /\ job' = NoJob
    /\ UNCHANGED <<gp, pm, alt, ct>>

CallDestinationQuery ==
    /\ CallerFree
    /\ \E query \in ParseTexts,
          dest \in {NoTable} \cup { Table(p, d, t) : p \in Projects, d \in Datasets,
                                                     t \in TableNames } :
         built' = [ fn |-> "DestinationQuery", query |-> query, dryRun |-> FALSE,
                    dest |-> dest, desc |-> DestinationQuery(query, dest) ]
    /\ op' = "DestinationQuery"
    /\ qp' = NoCall
    /\ dd' = IdleDedup
    /\ job' = NoJob
    /\ UNCHANGED <<gp, pm, alt, ct>>

CallQueryAndParse ==
    /\ CallerFree
    /\ \E q \in ParseTexts, model \in Models, cur \in Cursors :
         qp' = [ q |-> q, model |-> model, cur |-> cur,
                 out |-> QueryAndParse(q, model, cur) ]
    /\ op' = "QueryAndParse"
    /\ built' = NoBuilt
    /\ dd' = IdleDedup
    /\ job' = NoJob
    /\ UNCHANGED <<gp, pm, alt, ct>>

CallDedup ==
    /\ CallerFree
    /\ \E src \in Srcs, dedupOn \in DedupOns, overwrite \in BOOLEAN,
          project \in Projects, dataset \in Datasets, table \in TableNames,
          runOK \in BOOLEAN :
         LET b == DedupBegin(src, dedupOn, overwrite, project, dataset, table, runOK)
         IN  /\ dd' = b.dd
             /\ job' = b.job
    /\ op' = "Dedup"
    /\ built' = NoBuilt
    /\ qp' = NoCall
    /\ UNCHANGED <<gp, pm, alt, ct>>

\* The remote job runs to a terminal state, success or failure.
JobFinish ==
    /\ job.state = "running"
    /\ \E s \in Terminal : job' = [job EXCEPT !.state = s]
    /\ UNCHANGED <<op, built, qp, dd, gp, pm, alt, ct>>

\* job.Wait returns and Dedup returns what it returned.
DedupReturn ==
    /\ dd.pc = "waiting"
    /\ \E waitOK \in BOOLEAN :
         LET w == JobWait(job, waitOK)
         IN  /\ w.ready
             /\ dd' = DedupEnd(dd, w)
    /\ UNCHANGED <<op, built, qp, job, gp, pm, alt, ct>>

\* The call has returned (or panicked): its descriptor, row, target and status
\* are discarded; nothing of a call outlives it.
Discard ==
    /\ op # "none"
    /\ dd.pc # "waiting"
    /\ op' = "none"
    /\ built' = NoBuilt
    /\ qp' = NoCall
    /\ dd' = IdleDedup
    /\ job' = NoJob
    /\ gp' = NoPartitionCall
    /\ pm' = NoParse
    /\ alt' = NoAlt
    /\ UNCHANGED ct

PartitionTables == { <<"t">>, <<"t", "t">> }

CallGetPartitionInfo ==
    /\ CallerFree
    /\ \E table \in PartitionTables, partition \in 1..(MaxPartitions + 1), svc \in Services :
         gp' = [ table |-> table, partition |-> partition, svc |-> svc,
                 out |-> GetPartitionInfo(table, partition, svc) ]
    /\ op' = "GetPartitionInfo"
    /\ UNCHANGED <<built, qp, dd, job, pm, alt, ct>>

\* parseModel on its own, for any row and any tagged struct.
CallParseModel ==
    /\ CallerFree
    /\ \E row \in Rows, model \in Models :
         pm' = [row |-> row, model |-> model, out |-> parseModel(row, model)]
    /\ op' = "parseModel"
    /\ UNCHANGED <<built, qp, dd, job, gp, alt, ct>>

CallAltQueryAndParse ==
    /\ CallerFree
    /\ \E model \in Models, cur \in StructCursors :
         LET q == <<"S", "E", "L", "E", "C", "T">>
         IN  alt' = [ q |-> q, before |-> model, cur |-> cur,
                      out |-> AltQueryAndParse(q, model, cur) ]
    /\ op' = "AltQueryAndParse"
    /\ UNCHANGED <<built, qp, dd, job, gp, pm, ct>>

Next ==
    \/ Discard
    \/ CallGetPartitionInfo
    \/ CallParseModel
    \/ CallAltQueryAndParse
    \/ CallResultQuery
    \/ CallDestinationQuery
    \/ CallQueryAndParse
    \/ CallDedup
    \/ JobFinish
    \/ DedupReturn

Spec == Init /\ [][Next]_vars


(***************************** CountingTransport ****************************)
\* Goroutine g calls RoundTrip once, with request g. The call is three steps:
\* atomic.AddInt32 on count; the read of ct.reqs that append starts from; the
\* write of the appended slice back to ct.reqs, after which the call returns
\* StatusOK with an empty body and a nil error. The read and the write of
\* ct.reqs are not synchronised, so calls of other goroutines may come between.
Goroutines == 1..MaxCalls
StatusOK == 200

RtCount(g) ==
    /\ ct.pc[g] = "idle"
    /\ ct' = [ct EXCEPT !.count = @ + 1, !.calls = @ + 1, !.pc[g] = "counted"]
    /\ UNCHANGED <<op, built, qp, dd, job, gp, pm, alt>>

RtLoad(g) ==
    /\ ct.pc[g] = "counted"
    /\ ct' = [ct EXCEPT !.seen[g] = ct.reqs, !.pc[g] = "loaded"]
    /\ UNCHANGED <<op, built, qp, dd, job, gp, pm, alt>>

RtStore(g) ==
    /\ ct.pc[g] = "loaded"
    /\ ct' = [ct EXCEPT !.reqs = Append(ct.seen[g], g), !.resp[g] = StatusOK,
                         !.pc[g] = "returned"]
    /\ UNCHANGED <<op, built, qp, dd, job, gp, pm, alt>>

RoundTrip == \E g \in Goroutines : RtCount(g) \/ RtLoad(g) \/ RtStore(g)

SpecCT == Init /\ [][RoundTrip]_vars

(***************************** properties ***********************************)
Called == op = "QueryAndParse"
Succeeded == qp.out.kind = "return" /\ qp.out.err = ErrNil
Failed == qp.out.kind = "return" /\ qp.out.err # ErrNil
\* The cursor raises no hard error: Read succeeds and the rows end in iterator.Done.
SoftCursor == ~qp.cur.readErr /\ qp.cur.end = ErrDone
Yielded == Len(qp.cur.rows)

\* C1: for a cursor that raises no hard error, QueryAndParse returns success
\* if and only if the cursor yields exactly one row; with 0 rows or with 2 or
\* more rows the call ends in an error return.
C1_SuccessIffOneRow ==
    (Called /\ SoftCursor) =>
        /\ Succeeded <=> (Yielded = 1)
        /\ (Yielded # 1) => Failed

\* C2: with a cursor that yields no row, QueryAndParse returns the iterator's
\* "no more rows" error, which is neither the multiple-rows error nor a hard
\* error, and the value it hands back is the caller's target as it was.
C2_NoRows ==
    (Called /\ SoftCursor /\ Yielded = 0) =>
        /\ qp.out.kind = "return"
        /\ qp.out.err = ErrDone
        /\ qp.out.err \notin {ErrNil, ErrMultiple, ErrHard, ErrRead}
        /\ qp.out.val = qp.model
        /\ qp.out.nexts = 1
        /\ qp.out.rowsRead = 0

C2_Witness ==
    /\ Called /\ SoftCursor /\ Yielded = 0
    /\ Len(qp.model) = 2
    /\ qp.model[1].val = Prior(qp.model[1].typ)
    /\ qp.out.err = ErrDone

\* C3: with a cursor that yields two or more rows, QueryAndParse returns the
\* multiple-rows error after reading exactly two rows, and that error is not
\* the one returned for zero rows.
C3_MultipleRows ==
    (Called /\ ~qp.cur.readErr /\ Yielded >= 2) =>
        /\ qp.out.kind = "return"
        /\ qp.out.err = ErrMultiple
        /\ qp.out.err # ErrDone
        /\ qp.out.nexts = 2
        /\ qp.out.rowsRead = 2

DedupCalled == op = "Dedup"
Qualified == Contains(dd.table, "$")

\* C4: Dedup with a destination table name without '$' has returned the
\* missing-partition error and a nil status, having built no query, submitted
\* no job and waited on none.
C4_MissingPartitionQualifier ==
    (DedupCalled /\ ~Qualified) =>
        /\ dd.pc = "returned"
        /\ dd.err = ErrNoPartition
        /\ dd.status = NilStatus
        /\ dd.events = <<"check", "return">>
        /\ job.runs = 0
        /\ job.submitted = <<>>
        /\ job.state = "none"

C4_Witness ==
    /\ DedupCalled
    /\ dd.table = <<"t", "t">>
    /\ dd.pc = "returned"
    /\ dd.err = ErrNoPartition

\* C5: Dedup with a destination table name containing '$' hands exactly one
\* descriptor to the service, once; its events are check, build, submit, wait,
\* return in that order (no wait after a failed submission); and it returns
\* from a wait that did not itself fail only when the job is in a terminal state.
C5_OneJobThenWait ==
    (DedupCalled /\ Qualified) =>
        /\ job.runs = 1
        /\ Len(job.submitted) = 1
        /\ \/ dd.pc = "waiting" /\ dd.events = <<"check", "build", "submit", "wait">>
           \/ dd.pc = "returned" /\ dd.err = ErrRun /\ job.state = "none"
                /\ dd.events = <<"check", "build", "submit", "return">>
           \/ dd.pc = "returned" /\ dd.err # ErrRun
                /\ dd.events = <<"check", "build", "submit", "wait", "return">>
        /\ (dd.pc = "returned" /\ dd.err \notin {ErrRun, ErrWait}) => job.state \in Terminal
        /\ (dd.pc = "waiting") => job.state # "none"

C5_Witness ==
    /\ DedupCalled
    /\ dd.table = <<"t", "$">>
    /\ dd.pc = "returned"
    /\ dd.err = ErrNil
    /\ job.state = "done_ok"
    /\ dd.events = <<"check", "build", "submit", "wait", "return">>

\* C6: when the job ended in its failed state Dedup returns an error together
\* with the job's terminal status, and a status with no error is returned only
\* when the job succeeded.
C6_JobFailureIsAnError ==
    (DedupCalled /\ dd.pc = "returned" /\ job.state # "none") =>
        /\ (job.state = "done_failed" /\ ~dd.status.isNil) => dd.err # ErrNil
        /\ (dd.err = ErrNil) => (~dd.status.isNil /\ job.state = "done_ok")

\* C7: the descriptor Dedup submits has write disposition truncate if and only
\* if overwrite is true, the service default (unset) otherwise, and its
\* destination is the table named by the project, dataset and table arguments.
C7_WriteDisposition ==
    (DedupCalled /\ job.runs > 0) =>
        \A i \in 1..Len(job.submitted) :
            /\ (job.submitted[i].WriteDisposition = WriteTruncate) <=> dd.overwrite
            /\ ~dd.overwrite => job.submitted[i].WriteDisposition = ""
            /\ job.submitted[i].Dst =
                 << [ProjectID |-> dd.project, DatasetID |-> dd.dataset, TableID |-> dd.table] >>

C7_Witness ==
    /\ DedupCalled
    /\ ~dd.overwrite
    /\ dd.project = "p2"
    /\ Len(job.submitted) = 1
    /\ job.submitted[1].WriteDisposition = ""

\* C8: a descriptor built by DestinationQuery allows large results and does not
\* flatten them; without a destination it is a dry run with no destination,
\* with a destination it has that destination and is no dry run; and building
\* it executes nothing (no query read, no job).
C8_DestinationQuery ==
    /\ (op = "DestinationQuery") =>
        /\ built.desc.AllowLargeResults
        /\ built.desc.DisableFlattenedResults
        /\ (built.dest = NoTable) => (built.desc.DryRun /\ built.desc.Dst = NoTable)
        /\ (built.dest # NoTable) => (~built.desc.DryRun /\ built.desc.Dst = built.dest)
        /\ built.desc.Q = built.query
        /\ job.runs = 0
        /\ qp.out.execs = 0
    /\ \A i \in 1..Len(job.submitted) :
        /\ job.submitted[i].AllowLargeResults
        /\ job.submitted[i].DisableFlattenedResults
        /\ ~job.submitted[i].DryRun

C8_Witness ==
    /\ op = "DestinationQuery"
    /\ built.dest = NoTable
    /\ built.desc.DryRun

C8_WitnessDest ==
    /\ op = "DestinationQuery"
    /\ built.dest # NoTable
    /\ ~built.desc.DryRun

\* The text begins with the ten characters of "#legacySQL".
BeginsWithMarker(text) ==
    /\ Len(text) >= 10
    /\ text[1] = "#" /\ text[2] = "l" /\ text[3] = "e" /\ text[4] = "g" /\ text[5] = "a"
    /\ text[6] = "c" /\ text[7] = "y" /\ text[8] = "S" /\ text[9] = "Q" /\ text[10] = "L"

\* C9: ResultQuery sets UseLegacySQL if and only if the text begins with
\* "#legacySQL" (a marker after leading blanks or later in the text does not
\* count), and sets DryRun to the dryRun argument.
C9_LegacyDialect ==
    /\ (op = "ResultQuery") =>
        /\ built.desc.UseLegacySQL <=> BeginsWithMarker(built.query)
        /\ built.desc.DryRun = built.dryRun
        /\ built.desc.Q = built.query
    /\ Called =>
        /\ qp.out.query.UseLegacySQL <=> BeginsWithMarker(qp.q)
        /\ ~qp.out.query.DryRun

C9_Witness ==
    /\ op = "ResultQuery"
    /\ built.query = <<" ">> \o LegacyMarker
    /\ ~built.desc.UseLegacySQL
    /\ built.dryRun

C9_WitnessLegacy ==
    /\ op = "ResultQuery"
    /\ built.query = LegacyMarker \o <<"\n", "1">>
    /\ built.desc.UseLegacySQL

\* The singularity read was made and failed with a hard error: one row, which
\* was mapped, and then the hard error.
SingularityReadFailed ==
    /\ Called /\ ~qp.cur.readErr
    /\ Yielded = 1 /\ qp.cur.end = ErrHard
    /\ qp.out.nexts = 2

\* C10: a failure of the query submission, of the first read or of the
\* singularity read comes back as that same failure, a hard error never as the
\* no-rows or the multiple-rows error, and the query is executed at most once.
C10_FailureVerbatim ==
    Called =>
        /\ qp.out.execs <= 1
        /\ qp.cur.readErr => (qp.out.kind = "return" /\ qp.out.err = ErrRead)
        /\ (~qp.cur.readErr /\ Yielded = 0) =>
              (qp.out.kind = "return" /\ qp.out.err = qp.cur.end)
        /\ SingularityReadFailed =>
              (qp.out.kind = "return" /\ qp.out.err = ErrHard)

PartitionCalled == op = "GetPartitionInfo"
\* The rows of the partition summary whose partition_id is the one asked for.
Matching == { i \in 1..Len(gp.svc.summary) : gp.svc.summary[i].partition_id = gp.partition }
ServiceSound == ~gp.svc.readErr /\ gp.svc.end = ErrDone

\* C11: when the query service raises no hard error, GetPartitionInfo for a
\* partition ID that matches no row of the summary returns the no-rows error
\* with a zero-valued PartitionInfo, and for an ID that matches exactly one row
\* it returns no error and a PartitionInfo whose PartitionID is the requested
\* ID (with that row's times); whenever it returns an error the PartitionInfo
\* is zero-valued; the query it runs is in the legacy dialect.
C11_GetPartitionInfo ==
    PartitionCalled =>
        /\ (ServiceSound /\ Matching = {}) =>
              (gp.out.err = ErrDone /\ gp.out.pi = PartitionInfo)
        /\ (ServiceSound /\ Cardinality(Matching) = 1) =>
              /\ gp.out.err = ErrNil
              /\ gp.out.pi[1].tag = "PartitionID"
              /\ gp.out.pi[1].val = StrVal(gp.partition)
              /\ \A i \in Matching :
                    /\ gp.out.pi[2].val = TimeVal(gp.svc.summary[i].creation_time)
                    /\ gp.out.pi[3].val = TimeVal(gp.svc.summary[i].last_modified_time)
        /\ (gp.out.err # ErrNil) => gp.out.pi = PartitionInfo
        /\ gp.out.query.UseLegacySQL

C11_Witness ==
    /\ PartitionCalled /\ ServiceSound
    /\ Len(gp.svc.summary) = 2
    /\ gp.partition = 2
    /\ Cardinality(Matching) = 1
    /\ gp.out.err = ErrNil
    /\ gp.out.pi[1].val = StrVal(2)

C11_WitnessNoRows ==
    /\ PartitionCalled /\ ServiceSound
    /\ Len(gp.svc.summary) = 2
    /\ Matching = {}
    /\ gp.out.err = ErrDone

Parsed == op = "parseModel"
\* The fields of the template whose tag is a column of the row.
Bound == { i \in 1..Len(pm.model) : pm.model[i].tag \in DOMAIN pm.row }
\* Those among them whose column value is not of the field's declared type.
Mismatched == { i \in Bound : pm.row[pm.model[i].tag].t # pm.model[i].typ }

\* C12: for a row and a tagged struct whose matching columns are all of the
\* fields' types, parseModel returns without error an instance of the same
\* shape in which every field whose tag equals a column name (case-sensitively)
\* holds that column's value and every other field holds its zero value,
\* whatever the template held and whatever other columns the row has.
C12_PartialBinding ==
    (Parsed /\ Mismatched = {}) =>
        /\ ~pm.out.panic
        /\ pm.out.err = ErrNil
        /\ Len(pm.out.val) = Len(pm.model)
        /\ \A i \in 1..Len(pm.model) :
              /\ pm.out.val[i].tag = pm.model[i].tag
              /\ pm.out.val[i].typ = pm.model[i].typ
              /\ (i \in Bound) => pm.out.val[i].val = pm.row[pm.model[i].tag]
              /\ (i \notin Bound) => pm.out.val[i].val = [t |-> pm.model[i].typ, v |-> 0]

\* A row with column "a" of type int and column "A"; a template whose first
\* field is bound to "a" and whose second, bound to no column, held a value.
C12_Witness ==
    /\ Parsed /\ Mismatched = {}
    /\ DOMAIN pm.row = {"a", "A"}
    /\ Len(pm.model) = 2
    /\ pm.model[1].tag = "a" /\ pm.model[2].tag = "b"
    /\ pm.model[2].val.v = 7
    /\ pm.out.val[1].val = IntVal(1)
    /\ pm.out.val[2].val.v = 0

\* C13: when a column matched by a field's tag carries a value that the
\* field's type cannot hold, parseModel returns an error value to its caller
\* (it does not end in any other way, and it does not return success).
C13_TypeMismatchIsAnError ==
    (Parsed /\ Mismatched # {}) =>
        /\ ~pm.out.panic
        /\ pm.out.err # ErrNil

AltCalled == op = "AltQueryAndParse"
\* The call failed after its first row: the multiple-rows error, which the
\* code also returns for a hard error of the singularity read.
FailedAfterFirstRow == AltCalled /\ alt.out.err = ErrMultiple
\* The column of the first row bound to field i of the target, if any.
FirstRowColumns(i) ==
    IF alt.before[i].tag = "a" THEN DOMAIN alt.cur.rows[1] \cap {"a", "A"} ELSE {}

\* C14 as stated: when a single-row executor returns the multiple-rows error
\* (or fails in the singularity read) the caller's target holds the value it
\* held before the call.
C14_TargetUntouchedOnFailure ==
    /\ (Called /\ qp.out.kind = "return" /\ qp.out.err = ErrMultiple) => qp.out.val = qp.model
    /\ FailedAfterFirstRow => alt.out.val = alt.before

\* C14 amended: TableUtil.QueryAndParse, which takes the model by value, hands
\* back the model as it was; AltQueryAndParse, which decodes the first row
\* through the pointer, leaves the first row in the target: each field bound
\* to a column of the first row holds that column's value, and only the
\* fields bound to no column hold what they held before the call.
C14_FirstRowLeftInTarget ==
    /\ (Called /\ qp.out.kind = "return" /\ qp.out.err = ErrMultiple) => qp.out.val = qp.model
    /\ FailedAfterFirstRow =>
        /\ Len(alt.cur.rows) >= 1
        /\ Len(alt.out.val) = Len(alt.before)
        /\ \A i \in 1..Len(alt.before) :
              /\ \A c \in FirstRowColumns(i) : alt.out.val[i].val = alt.cur.rows[1][c]
              /\ (FirstRowColumns(i) = {}) => alt.out.val[i] = alt.before[i]

C14_Witness ==
    /\ FailedAfterFirstRow
    /\ Len(alt.cur.rows) = 2
    /\ Len(alt.before) = 2
    /\ alt.before[1].tag = "a" /\ alt.before[1].val = Prior("int")
    /\ alt.before[2].tag = "b" /\ alt.before[2].val = Prior("str")
    /\ alt.out.val[1].val = IntVal(1)
    /\ alt.out.val[2].val = Prior("str")
    /\ alt.out.val # alt.before

\* Every call that was started has returned.
Returned == { g \in Goroutines : ct.pc[g] = "returned" }
Quiescent == \A g \in Goroutines : ct.pc[g] \in {"idle", "returned"}

\* C15: once all RoundTrip calls on a CountingTransport have returned, in
\* whatever interleaving they ran, Count() is the number of calls, Requests()
\* has exactly one entry per call, and every call got StatusOK.
C15_OneEntryPerCall ==
    Quiescent =>
        /\ ct.count = Cardinality(Returned)
        /\ Len(ct.reqs) = ct.count
        /\ \A g \in Returned :
              /\ ct.resp[g] = StatusOK
              /\ \E i \in 1..Len(ct.reqs) : ct.reqs[i] = g

====
